---- MODULE Spec2Model ----
(***************************************************************************)
(* Html_To_Text/html_to_text.py: TranscriptHTMLParser (the markup scanner) *)
(* and strip_html_transcript (scanner + the normalizing passes).           *)
(*                                                                         *)
(* A string is a sequence of one-character strings.  A chunk is a string;  *)
(* the break marker is the one-character string "\n".                      *)
(***************************************************************************)
EXTENDS Integers, Sequences, FiniteSets

VARIABLES
    pc,      \* the statement of strip_html_transcript that runs next
    chunks,  \* TranscriptHTMLParser._chunks
    alt,     \* _chunks of a second parser fed the same events with other attribute lists
    held,    \* HTMLParser.rawdata after feed(): the text the tokenizer holds back until close()
    text,    \* the local variable text of strip_html_transcript
    joined,  \* the chunk sequence get_text() concatenated (the value of _chunks at line 102)
    ev,      \* the event most recently delivered to a handler (attrs2: the attribute
             \* list the second parser got)
    conc     \* concurrent calls of strip_html_transcript: heap[a] is the list object
             \* at address a, call[i] the locals of call i (pc, the events delivered
             \* to its parser, text)

vars == <<pc, chunks, alt, held, text, joined, ev, conc>>

(***************************************************************************)
(* Bounds                                                                  *)
(***************************************************************************)
MaxChunks == 4
MaxStrLen == 8
MaxParts == 4
MaxCallEvents == 3
MaxLiveChunks == 2

(***************************************************************************)
(* Characters                                                              *)
(***************************************************************************)
\* str.strip() and the pattern \s: the whitespace characters
WhiteSpace == {" ", "\t", "\n"}
\* the pattern \d
Digits == {"1"}
\* the word characters of \b: letters, digits, underscore
WordChars == {"a", "b", "1", "_"}

IsSpace(c) == c \in WhiteSpace
IsDigit(c) == c \in Digits
IsWord(c) == c \in WordChars

NL == <<"\n">>

(***************************************************************************)
(* TranscriptHTMLParser                                                    *)
(***************************************************************************)
_BLOCK_TAGS ==
    {"address", "article", "aside", "blockquote", "br", "dd", "div", "dl",
     "dt", "fieldset", "figcaption", "figure", "footer", "form", "h1", "h2",
     "h3", "h4", "h5", "h6", "header", "hgroup", "hr", "li", "main", "nav",
     "ol", "p", "pre", "section", "table", "td", "th", "tr", "ul"}

\* str.strip(): drop the leading and the trailing whitespace
RECURSIVE lstrip(_)
lstrip(s) ==
    IF s # <<>> /\ IsSpace(Head(s)) THEN lstrip(Tail(s)) ELSE s

RECURSIVE rstrip(_)
rstrip(s) ==
    IF s # <<>> /\ IsSpace(s[Len(s)]) THEN rstrip(SubSeq(s, 1, Len(s) - 1)) ELSE s

strip(s) == rstrip(lstrip(s))

\* a variant of _maybe_add_newline that does not look at the last chunk
_maybe_add_newline_NoDedup(c) ==
    IF c # <<>> THEN Append(c, NL) ELSE c

\* a variant of _maybe_add_newline without the test for an empty list
_maybe_add_newline_OnEmpty(c) ==
    IF c = <<>> \/ c[Len(c)] # NL THEN Append(c, NL) ELSE c

_maybe_add_newline(c) ==
    IF c # <<>> /\ c[Len(c)] # NL THEN Append(c, NL) ELSE c

\* a variant of _maybe_add_newline_raises for a test without "self._chunks and"
_maybe_add_newline_raises_NoGuard(c) == Len(c) < 1

\* whether _maybe_add_newline raises: self._chunks[-1] raises IndexError on an
\* empty list, and "self._chunks and" evaluates it on a non-empty list only
_maybe_add_newline_raises(c) == c # <<>> /\ Len(c) < 1

\* whether the handler of a tag event raises: the three handlers call
\* _maybe_add_newline for a block tag and do nothing else
TagHandlerRaises(c, tag) == tag \in _BLOCK_TAGS /\ _maybe_add_newline_raises(c)

\* a variant of handle_starttag that emits the attribute values as text
handle_starttag_LeakAttrs(c, tag, attrs) ==
    LET c1 == IF tag \in _BLOCK_TAGS THEN _maybe_add_newline(c) ELSE c
    IN  IF attrs # <<>> THEN Append(c1, attrs[1][2]) ELSE c1

handle_starttag(c, tag, attrs) ==
    IF tag \in _BLOCK_TAGS THEN _maybe_add_newline(c) ELSE c

\* a variant of handle_startendtag that requests no break
handle_startendtag_NoBreak(c, tag, attrs) == c

handle_startendtag(c, tag, attrs) ==
    IF tag \in _BLOCK_TAGS THEN _maybe_add_newline(c) ELSE c

\* a variant of handle_endtag that asks for a break at every end tag
handle_endtag_AnyTag(c, tag) == _maybe_add_newline(c)

handle_endtag(c, tag) ==
    IF tag \in _BLOCK_TAGS THEN _maybe_add_newline(c) ELSE c

\* a variant of handle_data that appends the data untrimmed
handle_data_NoStrip(c, data) ==
    IF strip(data) # <<>> THEN Append(c, data) ELSE c

\* a variant of handle_data that extends the last text chunk in place
handle_data_Merge(c, data) ==
    LET t == strip(data)
    IN  IF t = <<>> THEN c
        ELSE IF c # <<>> /\ c[Len(c)] # NL THEN [c EXCEPT ![Len(c)] = @ \o t]
        ELSE Append(c, t)

handle_data(c, data) ==
    LET t == strip(data) IN IF t # <<>> THEN Append(c, t) ELSE c

\* "".join(self._chunks)
\* a variant of get_text that joins the chunks with a space (" ".join)
RECURSIVE get_text_SpaceJoin(_)
get_text_SpaceJoin(c) ==
    IF c = <<>> THEN <<>>
    ELSE IF Tail(c) = <<>> THEN Head(c)
    ELSE Head(c) \o <<" ">> \o get_text_SpaceJoin(Tail(c))

RECURSIVE get_text(_)
get_text(c) ==
    IF c = <<>> THEN <<>> ELSE Head(c) \o get_text(Tail(c))

(***************************************************************************)
(* The passes of strip_html_transcript                                     *)
(***************************************************************************)
WordAt(s, k) == k >= 1 /\ k <= Len(s) /\ IsWord(s[k])
DigitAt(s, k) == k >= 1 /\ k <= Len(s) /\ IsDigit(s[k])
ColonAt(s, k) == k >= 1 /\ k <= Len(s) /\ s[k] = ":"

\* \b between s[k-1] and s[k]
Boundary(s, k) == WordAt(s, k - 1) # WordAt(s, k)

\* a variant of TsTail without the closing \b
TsTail_NoTrailingBoundary(s, k) ==
    IF ColonAt(s, k) /\ DigitAt(s, k + 1) /\ DigitAt(s, k + 2)
    THEN IF ColonAt(s, k + 3) /\ DigitAt(s, k + 4) /\ DigitAt(s, k + 5)
         THEN k + 5
         ELSE k + 2
    ELSE 0

\* :\d{2}(?::\d{2})?\b from index k on: the index of the last character
\* matched, 0 when there is no match.  The optional group is tried first.
TsTail(s, k) ==
    IF ColonAt(s, k) /\ DigitAt(s, k + 1) /\ DigitAt(s, k + 2)
    THEN IF ColonAt(s, k + 3) /\ DigitAt(s, k + 4) /\ DigitAt(s, k + 5)
            /\ Boundary(s, k + 6)
         THEN k + 5
         ELSE IF Boundary(s, k + 3) THEN k + 2 ELSE 0
    ELSE 0

\* _TIMESTAMP_RE matched at index i: the index of the last character of the
\* match, 0 when there is none.  \d{1,2} is greedy: two digits, then one.
TsMatchEnd(s, i) ==
    IF ~(Boundary(s, i) /\ DigitAt(s, i)) THEN 0
    ELSE LET two == IF DigitAt(s, i + 1) THEN TsTail(s, i + 2) ELSE 0
         IN  IF two > 0 THEN two ELSE TsTail(s, i + 1)

\* a variant of the substitution that replaces the first match only (count=1)
RECURSIVE TsSubFrom_FirstOnly(_, _)
TsSubFrom_FirstOnly(s, i) ==
    IF i > Len(s) THEN <<>>
    ELSE LET e == TsMatchEnd(s, i)
         IN  IF e > 0 THEN <<" ">> \o SubSeq(s, e + 1, Len(s))
             ELSE <<s[i]>> \o TsSubFrom_FirstOnly(s, i + 1)

\* _TIMESTAMP_RE.sub(" ", s), scanning from index i
RECURSIVE TsSubFrom(_, _)
TsSubFrom(s, i) ==
    IF i > Len(s) THEN <<>>
    ELSE LET e == TsMatchEnd(s, i)
         IN  IF e > 0 THEN <<" ">> \o TsSubFrom(s, e + 1)
             ELSE <<s[i]>> \o TsSubFrom(s, i + 1)

TsSub(s) == TsSubFrom(s, 1)

\* the index of the last character of the whitespace run that starts at i
RECURSIVE RunEnd(_, _)
RunEnd(s, i) ==
    IF i < Len(s) /\ IsSpace(s[i + 1]) THEN RunEnd(s, i + 1) ELSE i

\* re.sub(r"\s+", " ", s), scanning from index i
RECURSIVE WsFrom(_, _)
WsFrom(s, i) ==
    IF i > Len(s) THEN <<>>
    ELSE IF IsSpace(s[i]) THEN <<" ">> \o WsFrom(s, RunEnd(s, i) + 1)
    ELSE <<s[i]>> \o WsFrom(s, i + 1)

\* a variant of the collapsing pass that leaves newlines alone ([ \t]+)
RECURSIVE WsFromKeepNl(_, _)
WsFromKeepNl(s, i) ==
    IF i > Len(s) THEN <<>>
    ELSE IF IsSpace(s[i]) /\ s[i] # "\n"
         THEN IF i < Len(s) /\ IsSpace(s[i + 1]) /\ s[i + 1] # "\n"
              THEN WsFromKeepNl(s, i + 1)
              ELSE <<" ">> \o WsFromKeepNl(s, i + 1)
    ELSE <<s[i]>> \o WsFromKeepNl(s, i + 1)

WsCollapse_KeepNl(s) == WsFromKeepNl(s, 1)

\* a variant of the collapsing pass that deletes the runs (replacement "")
RECURSIVE WsFromDelete(_, _)
WsFromDelete(s, i) ==
    IF i > Len(s) THEN <<>>
    ELSE IF IsSpace(s[i]) THEN WsFromDelete(s, i + 1)
    ELSE <<s[i]>> \o WsFromDelete(s, i + 1)

WsCollapse_Delete(s) == WsFromDelete(s, 1)

WsCollapse(s) == WsFrom(s, 1)

\* the pattern " ?\n ?" matched at index i: the index of the last character
\* of the match, 0 when there is none
NlMatchEnd(s, i) ==
    LET n == IF i <= Len(s) /\ s[i] = " " /\ i + 1 <= Len(s) /\ s[i + 1] = "\n"
             THEN i + 1
             ELSE IF i <= Len(s) /\ s[i] = "\n" THEN i ELSE 0
    IN  IF n = 0 THEN 0
        ELSE IF n + 1 <= Len(s) /\ s[n + 1] = " " THEN n + 1 ELSE n

\* re.sub(r" ?\n ?", "\n", s), scanning from index i
RECURSIVE NlFrom(_, _)
NlFrom(s, i) ==
    IF i > Len(s) THEN <<>>
    ELSE LET e == NlMatchEnd(s, i)
         IN  IF e > 0 THEN <<"\n">> \o NlFrom(s, e + 1)
             ELSE <<s[i]>> \o NlFrom(s, i + 1)

NlSub(s) == NlFrom(s, 1)

(***************************************************************************)
(* Inputs                                                                  *)
(***************************************************************************)
Tags == {"p", "br", "span"}

\* attribute lists: sequences of <<name, value>>
AttrLists == {<<>>, << <<(<<"i", "d">>), (<<"x">>)>> >>}

\* the data of text-data events: empty, whitespace only, text with whitespace
\* around it, timestamp cues, text with whitespace inside
DataSet ==
    { <<>>,
      <<" ", "\n">>,
      <<" ", "b", "\n">>,
      <<"1", ":", "1", "1">>,
      <<"\t", "1", "1", ":", "1", "1", ":", "1", "1">>,
      <<":", "1", "1">>,
      <<"a", " ", "\t", "b">>,
      <<"a", "\n", "b", " ">> }

\* the text feed() leaves in rawdata: nothing, or text with a pending "&"
HeldSet == { <<>>, <<"a", "&", "b">> }

\* the calls that run concurrently
Calls == {1, 2}

\* a variant of BufferOf for a class-level list shared by all instances
BufferOf_Shared(i) == 1

\* self._chunks = []: every parser instance gets a list object of its own
BufferOf(i) == i

\* the events delivered to the parsers of the concurrent calls
ConcEvents ==
    { [kind |-> "start", tag |-> "p", attrs |-> <<>>, attrs2 |-> <<>>, data |-> <<>>],
      [kind |-> "end", tag |-> "span", attrs |-> <<>>, attrs2 |-> <<>>, data |-> <<>>],
      [kind |-> "data", tag |-> "", attrs |-> <<>>, attrs2 |-> <<>>,
       data |-> <<" ", "b", "\n">>],
      [kind |-> "data", tag |-> "", attrs |-> <<>>, attrs2 |-> <<>>,
       data |-> <<"1", ":", "1", "1">>] }

\* the handler HTMLParser calls for the event e, on the chunk sequence c
ApplyEvent(c, e) ==
    CASE e.kind = "start" -> handle_starttag(c, e.tag, e.attrs)
      [] e.kind = "startend" -> handle_startendtag(c, e.tag, e.attrs)
      [] e.kind = "end" -> handle_endtag(c, e.tag)
      [] e.kind = "data" -> handle_data(c, e.data)
      [] OTHER -> c

ConcInit ==
    [ heap |-> [a \in Calls |-> <<>>],
      call |-> [i \in Calls |-> [pc |-> "feed", evs |-> <<>>, text |-> <<>>]] ]

\* the events TranscriptHTMLParser has no handler for: HTMLParser's own
\* handle_comment, handle_pi and handle_decl do nothing
IgnoredKinds == {"comment", "pi", "decl"}

NoEvent == [kind |-> "none", tag |-> "", attrs |-> <<>>, attrs2 |-> <<>>, data |-> <<>>]

(***************************************************************************)
(* strip_html_transcript                                                   *)
(***************************************************************************)
Init ==
    /\ pc = "feed"
    /\ chunks = <<>>
    /\ alt = <<>>
    /\ held = <<>>
    /\ text = <<>>
    /\ joined = <<>>
    /\ ev = NoEvent
    /\ conc = ConcInit

\* parser.feed(html) delivers a start tag
FeedStartTag ==
    /\ pc = "feed"
    /\ Len(chunks) < MaxChunks
    /\ \E tag \in Tags, a \in AttrLists, a2 \in AttrLists :
         /\ pc' = IF TagHandlerRaises(chunks, tag) THEN "raised" ELSE pc
         /\ chunks' = IF TagHandlerRaises(chunks, tag) THEN chunks
                      ELSE handle_starttag(chunks, tag, a)
         /\ alt' = IF TagHandlerRaises(alt, tag) THEN alt
                   ELSE handle_starttag(alt, tag, a2)
         /\ ev' = [kind |-> "start", tag |-> tag, attrs |-> a, attrs2 |-> a2,
                  data |-> <<>>]
    /\ UNCHANGED <<conc, held, text, joined>>

\* parser.feed(html) delivers a self-closing tag
FeedStartEndTag ==
    /\ pc = "feed"
    /\ Len(chunks) < MaxChunks
    /\ \E tag \in Tags, a \in AttrLists, a2 \in AttrLists :
         /\ pc' = IF TagHandlerRaises(chunks, tag) THEN "raised" ELSE pc
         /\ chunks' = IF TagHandlerRaises(chunks, tag) THEN chunks
                      ELSE handle_startendtag(chunks, tag, a)
         /\ alt' = IF TagHandlerRaises(alt, tag) THEN alt
                   ELSE handle_startendtag(alt, tag, a2)
         /\ ev' = [kind |-> "startend", tag |-> tag, attrs |-> a, attrs2 |-> a2,
                  data |-> <<>>]
    /\ UNCHANGED <<conc, held, text, joined>>

\* parser.feed(html) delivers an end tag
FeedEndTag ==
    /\ pc = "feed"
    /\ Len(chunks) < MaxChunks
    /\ \E tag \in Tags :
         /\ pc' = IF TagHandlerRaises(chunks, tag) THEN "raised" ELSE pc
         /\ chunks' = IF TagHandlerRaises(chunks, tag) THEN chunks
                      ELSE handle_endtag(chunks, tag)
         /\ alt' = IF TagHandlerRaises(alt, tag) THEN alt
                   ELSE handle_endtag(alt, tag)
         /\ ev' = [kind |-> "end", tag |-> tag, attrs |-> <<>>, attrs2 |-> <<>>,
                  data |-> <<>>]
    /\ UNCHANGED <<conc, held, text, joined>>

\* parser.feed(html) delivers text
FeedData ==
    /\ pc = "feed"
    /\ Len(chunks) < MaxChunks
    /\ \E d \in DataSet :
         /\ chunks' = handle_data(chunks, d)
         /\ alt' = handle_data(alt, d)
         /\ ev' = [kind |-> "data", tag |-> "", attrs |-> <<>>, attrs2 |-> <<>>,
                  data |-> d]
    /\ UNCHANGED <<conc, pc, held, text, joined>>

\* parser.feed(html) meets a comment, a processing instruction or a doctype
\* declaration: the inherited handler does nothing
FeedIgnored ==
    /\ pc = "feed"
    /\ \E k \in IgnoredKinds :
         ev' = [kind |-> k, tag |-> "", attrs |-> <<>>, attrs2 |-> <<>>, data |-> <<>>]
    /\ UNCHANGED <<conc, pc, chunks, alt, held, text, joined>>

\* parser.feed(html) returns; the tokenizer may keep the end of the input
FeedReturn ==
    /\ pc = "feed"
    /\ \E h \in HeldSet : held' = h
    /\ pc' = "get_text"
    /\ UNCHANGED <<conc, chunks, alt, text, joined, ev>>

\* text = parser.get_text()
GetText ==
    /\ pc = "get_text"
    /\ text' = get_text(chunks)
    /\ joined' = chunks
    /\ pc' = "close"
    /\ UNCHANGED <<conc, chunks, alt, held, ev>>

\* parser.close(): the tokenizer delivers the text it held back
Close ==
    /\ pc = "close"
    /\ chunks' = IF held # <<>> THEN handle_data(chunks, held) ELSE chunks
    /\ alt' = IF held # <<>> THEN handle_data(alt, held) ELSE alt
    /\ ev' = IF held # <<>>
             THEN [kind |-> "data", tag |-> "", attrs |-> <<>>, attrs2 |-> <<>>,
                   data |-> held]
             ELSE ev
    /\ held' = <<>>
    /\ pc' = "ts"
    /\ UNCHANGED <<conc, text, joined>>

\* text = _TIMESTAMP_RE.sub(" ", text)
TsPass ==
    /\ pc = "ts"
    /\ text' = TsSub(text)
    /\ pc' = "ws"
    /\ UNCHANGED <<conc, chunks, alt, held, joined, ev>>

\* text = re.sub(r"\s+", " ", text)
WsPass ==
    /\ pc = "ws"
    /\ text' = WsCollapse(text)
    /\ pc' = "nl"
    /\ UNCHANGED <<conc, chunks, alt, held, joined, ev>>

\* text = re.sub(r" ?\n ?", "\n", text)
NlPass ==
    /\ pc = "nl"
    /\ text' = NlSub(text)
    /\ pc' = "strip"
    /\ UNCHANGED <<conc, chunks, alt, held, joined, ev>>

\* a variant of the last statement that returns text untrimmed
Return_NoStrip ==
    /\ pc = "strip"
    /\ pc' = "done"
    /\ UNCHANGED <<conc, chunks, alt, held, text, joined, ev>>

\* return text.strip()
Return ==
    /\ pc = "strip"
    /\ text' = strip(text)
    /\ pc' = "done"
    /\ UNCHANGED <<conc, chunks, alt, held, joined, ev>>

Next ==
    \/ FeedStartTag
    \/ FeedStartEndTag
    \/ FeedEndTag
    \/ FeedData
    \/ FeedIgnored
    \/ FeedReturn
    \/ GetText
    \/ Close
    \/ TsPass
    \/ WsPass
    \/ NlPass
    \/ Return

Spec == Init /\ [][Next]_vars

(***************************************************************************)
(* Two calls of strip_html_transcript whose steps interleave                *)
(***************************************************************************)
\* parser.feed(html) of call i delivers an event to the handlers of its parser
ConcEvent(i) ==
    /\ conc.call[i].pc = "feed"
    /\ Len(conc.call[i].evs) < MaxCallEvents
    /\ \E e \in ConcEvents :
         conc' = [conc EXCEPT
                    !.heap[BufferOf(i)] = ApplyEvent(@, e),
                    !.call[i].evs = Append(@, e)]
    /\ UNCHANGED <<pc, chunks, alt, held, text, joined, ev>>

\* call i: feed() returns, text = parser.get_text(), parser.close()
ConcGetText(i) ==
    /\ conc.call[i].pc = "feed"
    /\ conc' = [conc EXCEPT
                  !.call[i].text = get_text(conc.heap[BufferOf(i)]),
                  !.call[i].pc = "read"]
    /\ UNCHANGED <<pc, chunks, alt, held, text, joined, ev>>

\* call i: the four passes on its text, and the return
ConcReturn(i) ==
    /\ conc.call[i].pc = "read"
    /\ conc' = [conc EXCEPT
                  !.call[i].text = strip(NlSub(WsCollapse(TsSub(@)))),
                  !.call[i].pc = "done"]
    /\ UNCHANGED <<pc, chunks, alt, held, text, joined, ev>>

NextConc ==
    \E i \in Calls :
        \/ ConcEvent(i)
        \/ ConcGetText(i)
        \/ ConcReturn(i)

SpecConc == Init /\ [][NextConc]_vars

\* the statements of strip_html_transcript that follow the delivery of events
Advance ==
    \/ FeedReturn
    \/ GetText
    \/ Close
    \/ TsPass
    \/ WsPass
    \/ NlPass
    \/ Return

\* the inputs of the termination check: those that give at most MaxLiveChunks
\* chunks during feed()
LiveCap == Len(chunks) < MaxLiveChunks

NextLive ==
    \/ LiveCap /\ FeedStartTag
    \/ LiveCap /\ FeedStartEndTag
    \/ LiveCap /\ FeedEndTag
    \/ LiveCap /\ FeedData
    \/ FeedIgnored
    \/ Advance

\* the input is finite, so feed() returns after finitely many events, and
\* every later statement is executed once control reaches it
SpecLive == Init /\ [][NextLive]_vars /\ WF_vars(Advance)

(***************************************************************************)
(* The passes alone, on every string over TsAlphabet of at most MaxStrLen  *)
(* characters: the text is taken as the one chunk get_text() returned.     *)
(***************************************************************************)
\* a digit, the colon, a letter, a space
TsAlphabet == {"1", ":", "a", " "}

Strings == UNION { [1..n -> TsAlphabet] : n \in 0..MaxStrLen }

InitTs ==
    /\ pc = "ts"
    /\ chunks = <<>>
    /\ alt = <<>>
    /\ held = <<>>
    /\ \E s \in Strings : text = s /\ joined = <<s>>
    /\ ev = NoEvent
    /\ conc = ConcInit

NextTs ==
    \/ TsPass
    \/ WsPass
    \/ NlPass
    \/ Return

SpecTs == InitTs /\ [][NextTs]_vars

(***************************************************************************)
(* The passes alone, on every string made of at most MaxParts parts: a     *)
(* timestamp, a word character, a whitespace character or a colon.         *)
(***************************************************************************)
PartSet ==
    { <<"1", ":", "1", "1">>,
      <<"1", "1", ":", "1", "1", ":", "1", "1">>,
      <<"1">>, <<"a">>, <<"_">>, <<":">>,
      <<" ">>, <<"\n">>, <<"\t">> }

PartSeqs == UNION { [1..n -> PartSet] : n \in 0..MaxParts }

InitParts ==
    /\ pc = "ts"
    /\ chunks = <<>>
    /\ alt = <<>>
    /\ held = <<>>
    /\ \E p \in PartSeqs : text = get_text(p) /\ joined = <<get_text(p)>>
    /\ ev = NoEvent
    /\ conc = ConcInit

SpecParts == InitParts /\ [][NextTs]_vars

\* the four passes of strip_html_transcript on the text s
Normalize(s) == strip(NlSub(WsCollapse(TsSub(s))))

(***************************************************************************)
(* Helpers of the properties                                               *)
(***************************************************************************)
IsBreak(c) == c = NL
IsTextChunk(c) == c # NL

\* t occurs in s as a contiguous substring
Contains(s, t) ==
    \E i \in 1..(Len(s) - Len(t) + 1) : SubSeq(s, i, i + Len(t) - 1) = t

\* t is a timestamp cue: the Timestamp Pattern matches all of it
IsCue(t) == t # <<>> /\ TsMatchEnd(t, 1) = Len(t)

\* an event delivered by feed() to one of the three tag handlers
IsTagEvent(e) == e.kind \in {"start", "startend", "end"}
IsBlockTagEvent(e) == IsTagEvent(e) /\ e.tag \in _BLOCK_TAGS

Normalizing == pc \in {"ts", "ws", "nl", "strip", "done"}

(***************************************************************************)
(* C1                                                                      *)
(***************************************************************************)
\* C1: after any sequence of scanner events the chunk sequence never holds
\* two adjacent break markers, and neither does the sequence get_text() joins.
C1_NoAdjacentBreaks ==
    /\ \A k \in 1..(Len(chunks) - 1) : ~(IsBreak(chunks[k]) /\ IsBreak(chunks[k + 1]))
    /\ \A k \in 1..(Len(joined) - 1) : ~(IsBreak(joined[k]) /\ IsBreak(joined[k + 1]))

\* a block-tag event has been handled while the last chunk is a break marker
C1_Witness ==
    /\ pc = "feed"
    /\ IsBlockTagEvent(ev)
    /\ Len(chunks) >= 2
    /\ IsBreak(chunks[Len(chunks)])
    /\ IsTextChunk(chunks[Len(chunks) - 1])

(***************************************************************************)
(* C2                                                                      *)
(***************************************************************************)
\* C2: the scanner's text is read only after every event has been delivered:
\* when get_text() has been taken the tokenizer holds no text back, and no
\* chunk is appended after the text has been read.
C2_ReadAfterAllEvents ==
    /\ pc = "close" => held = <<>>
    /\ Normalizing => chunks = joined

(***************************************************************************)
(* C3                                                                      *)
(***************************************************************************)
\* C3: a timestamp cue that is the whole trimmed text of a data event does
\* not appear in the final output, whatever the neighbouring events are.
C3_CueRemoved ==
    pc = "done" =>
        \A k \in 1..Len(joined) : IsCue(joined[k]) => ~Contains(text, joined[k])

(***************************************************************************)
(* C4                                                                      *)
(***************************************************************************)
\* C4: whenever two text fragments (that timestamp removal leaves alone) are
\* separated by a block-tag event, the final output has a newline.
C4_BreaksPreserved ==
    pc = "done" =>
        \A k \in 2..(Len(joined) - 1) :
            ( /\ IsBreak(joined[k])
              /\ TsSub(joined[k - 1]) = joined[k - 1]
              /\ TsSub(joined[k + 1]) = joined[k + 1] )
            => Contains(text, NL)

(***************************************************************************)
(* C5                                                                      *)
(***************************************************************************)
\* the chunk sequence c cut at its break markers: the text between them
RECURSIVE Segments(_)
Segments(c) ==
    IF c = <<>> THEN << <<>> >>
    ELSE LET rest == Segments(Tail(c))
         IN  IF IsBreak(Head(c)) THEN << <<>> >> \o rest
             ELSE << Head(c) \o Head(rest) >> \o Tail(rest)

\* the segments that lie between two text chunks or before the first break:
\* a break marker that ends the sequence separates nothing
InnerSegments(c) ==
    LET g == Segments(c)
    IN  IF Len(g) > 1 /\ g[Len(g)] = <<>> THEN SubSeq(g, 1, Len(g) - 1) ELSE g

\* a segment after timestamp removal, collapsing and trimming
NormSeg(g) == strip(WsCollapse(TsSub(g)))

RECURSIVE NormAll(_)
NormAll(gs) ==
    IF gs = <<>> THEN <<>> ELSE <<NormSeg(Head(gs))>> \o NormAll(Tail(gs))

RECURSIVE NonEmpty(_)
NonEmpty(gs) ==
    IF gs = <<>> THEN <<>>
    ELSE IF Head(gs) = <<>> THEN NonEmpty(Tail(gs))
    ELSE <<Head(gs)>> \o NonEmpty(Tail(gs))

\* the strings of gs with one space between each two
RECURSIVE JoinSp(_)
JoinSp(gs) ==
    IF gs = <<>> THEN <<>>
    ELSE IF Len(gs) = 1 THEN Head(gs)
    ELSE Head(gs) \o <<" ">> \o JoinSp(Tail(gs))

\* the third pass finds nothing to replace, and the output has no newline
NlPassIsNoOp ==
    /\ pc = "nl" => (NlSub(text) = text /\ ~Contains(text, NL))
    /\ pc \in {"strip", "done"} => ~Contains(text, NL)

C7_AttrsIgnored ==
    /\ chunks = alt
    /\ pc = "close" => text = get_text(alt)
    /\ \A k \in 1..Len(chunks) : \A a \in AttrLists : \A j \in 1..Len(a) :
           ~Contains(chunks[k], a[j][1]) /\ ~Contains(chunks[k], a[j][2])

\* a block start tag was delivered with attributes to one parser and without to the other
C7_Witness ==
    /\ pc = "feed"
    /\ ev.kind = "start"
    /\ ev.tag \in _BLOCK_TAGS
    /\ ev.attrs # <<>>
    /\ ev.attrs2 = <<>>
    /\ chunks # <<>>

(***************************************************************************)
(* C8                                                                      *)
(***************************************************************************)
\* C8: a block-tag event of any kind appends exactly one break marker when
\* the chunk sequence is non-empty and its last chunk is not a break marker,
\* and otherwise leaves it unchanged; the three handlers agree on every tag.
C8_BreakRule ==
    [][ (pc = "feed" /\ pc' = "feed" /\ IsTagEvent(ev')) =>
          /\ IsBlockTagEvent(ev') =>
                chunks' = IF chunks # <<>> /\ ~IsBreak(chunks[Len(chunks)])
                          THEN Append(chunks, NL)
                          ELSE chunks
          /\ \A t \in Tags : \A a \in AttrLists :
                /\ handle_starttag(chunks, t, a) = handle_endtag(chunks, t)
                /\ handle_startendtag(chunks, t, a) = handle_endtag(chunks, t)
      ]_vars

\* a self-closing block tag has appended the break marker after a text chunk
C8_Witness ==
    /\ pc = "feed"
    /\ ev.kind = "startend"
    /\ ev.tag \in _BLOCK_TAGS
    /\ Len(chunks) = 2
    /\ IsTextChunk(chunks[1])
    /\ IsBreak(chunks[2])

(***************************************************************************)
(* C9                                                                      *)
(***************************************************************************)
AllSpace(d) == \A k \in 1..Len(d) : IsSpace(d[k])

\* t is d without its leading and trailing whitespace, the rest verbatim
IsTrimOf(t, d) ==
    /\ t # <<>>
    /\ ~IsSpace(t[1])
    /\ ~IsSpace(t[Len(t)])
    /\ \E i \in 0..Len(d) :
          /\ i + Len(t) <= Len(d)
          /\ SubSeq(d, i + 1, i + Len(t)) = t
          /\ \A k \in 1..i : IsSpace(d[k])
          /\ \A k \in (i + Len(t) + 1)..Len(d) : IsSpace(d[k])

\* C9: a text-data event appends exactly one chunk, the data without its
\* leading and trailing whitespace, when that is non-empty, and leaves the
\* chunk sequence unchanged when the data is empty or all whitespace.
C9_DataRule ==
    [][ LET fed == pc = "feed" /\ pc' = "feed" /\ ev'.kind = "data"
            closed == pc = "close" /\ held # <<>>
            d == IF closed THEN held ELSE ev'.data
        IN  (fed \/ closed) =>
               IF AllSpace(d) THEN chunks' = chunks
               ELSE /\ Len(chunks') = Len(chunks) + 1
                    /\ SubSeq(chunks', 1, Len(chunks)) = chunks
                    /\ IsTrimOf(chunks'[Len(chunks')], d)
      ]_vars

\* data with whitespace around and inside it has been appended trimmed
C9_Witness ==
    /\ pc = "feed"
    /\ ev.kind = "data"
    /\ ev.data = <<"a", "\n", "b", " ">>
    /\ chunks # <<>>
    /\ chunks[Len(chunks)] = <<"a", "\n", "b">>

(***************************************************************************)
(* C10                                                                     *)
(***************************************************************************)
\* C10: timestamp removal is idempotent: applied to its own result it
\* changes nothing.
C10_TsSubIdempotent ==
    pc = "ws" => TsSub(text) = text

\* a timestamp was replaced right after a colon and two digits
C10_Witness ==
    /\ pc = "ws"
    /\ text # joined[1]
    /\ Contains(joined[1], <<":", "1", "1", " ", "1", ":", "1", "1">>)
    /\ Contains(text, <<":", "1", "1", " ", " ">>)

(***************************************************************************)
(* C11                                                                     *)
(***************************************************************************)
\* C11: normalization is idempotent: the four passes applied to an already
\* normalized text return it unchanged.
C11_NormalizeIdempotent ==
    pc = "done" => Normalize(text) = text

\* a text with a break and a timestamp has been normalized to one word
C11_Witness ==
    /\ pc = "done"
    /\ Contains(joined[1], <<"\n", "1", ":", "1", "1">>)
    /\ Contains(joined[1], <<"\t">>)
    /\ text = <<"a">>

RECURSIVE Replay(_)
Replay(evs) ==
    IF evs = <<>> THEN <<>>
    ELSE ApplyEvent(Replay(SubSeq(evs, 1, Len(evs) - 1)), evs[Len(evs)])

\* C13: when calls run with their events interleaved, the chunk sequence and
\* the result of each call are those of running that call alone.
C13_CallsIndependent ==
    \A i \in Calls :
        LET c == conc.call[i]
            alone == Replay(c.evs)
        IN  /\ conc.heap[BufferOf(i)] = alone
            /\ c.pc = "read" => c.text = get_text(alone)
            /\ c.pc = "done" => c.text = strip(NlSub(WsCollapse(TsSub(get_text(alone)))))

\* one call has returned text while the other, started before that, still
\* receives events for a different chunk sequence
C13_Witness ==
    /\ conc.call[1].pc = "done"
    /\ conc.call[1].text # <<>>
    /\ conc.call[2].pc = "feed"
    /\ Len(conc.call[2].evs) = MaxCallEvents
    /\ conc.heap[BufferOf(2)] # <<>>
    /\ conc.heap[BufferOf(1)] # conc.heap[BufferOf(2)]

(***************************************************************************)
(* C14                                                                     *)
(***************************************************************************)
\* _TIMESTAMP_RE.search(s) finds a match
HasTsMatch(s) == \E i \in 1..Len(s) : TsMatchEnd(s, i) > 0

\* C14: after the timestamp-removal pass the text holds no match of the
\* Timestamp Pattern, the later passes create none, and so the returned text
\* holds none.
C14_NoTimestampLeft ==
    pc \in {"ws", "nl", "strip", "done"} => ~HasTsMatch(text)

\* "1:11 a a 1" with a cue in front has been converted to "a a 1"
C14_Witness ==
    /\ pc = "done"
    /\ joined[1] = <<"1", ":", "1", "1", " ", "a", " ", "1">>
    /\ HasTsMatch(joined[1])
    /\ text = <<"a", " ", "1">>

(***************************************************************************)
(* C15                                                                     *)
(***************************************************************************)
\* the number of characters of the chunks c[1..k-1]
RECURSIVE Off(_, _)
Off(c, k) == IF k <= 1 THEN 0 ELSE Off(c, k - 1) + Len(c[k - 1])

\* t is the chunks of c laid end to end, with nothing between them
IsConcat(t, c) ==
    /\ Len(t) = Off(c, Len(c) + 1)
    /\ \A k \in 1..Len(c) : SubSeq(t, Off(c, k) + 1, Off(c, k + 1)) = c[k]

\* the spans <<first, last>> that _TIMESTAMP_RE.sub replaces in s, scanning
\* from index i
RECURSIVE TsSpans(_, _)
TsSpans(s, i) ==
    IF i > Len(s) THEN {}
    ELSE LET e == TsMatchEnd(s, i)
         IN  IF e > 0 THEN {<<i, e>>} \cup TsSpans(s, e + 1)
             ELSE TsSpans(s, i + 1)

\* chunks k and k+1 of c are text chunks with no break between them
AdjacentTexts(c, k) == IsTextChunk(c[k]) /\ IsTextChunk(c[k + 1])

\* a replaced span of the concatenated text overlaps chunk k or chunk k+1
CueOverlaps(c, k) ==
    \E sp \in TsSpans(get_text(c), 1) :
        sp[1] <= Off(c, k + 2) /\ sp[2] >= Off(c, k) + 1

\* the two texts stand side by side in the returned text
SideBySide(c, k) == Contains(text, WsCollapse(c[k]) \o WsCollapse(c[k + 1]))

C16_OnlyBlockTagsAndText ==
    [][ LET fed == pc = "feed" /\ pc' = "feed"
            closed == pc = "close" /\ held # <<>>
            e == IF closed
                 THEN [kind |-> "data", tag |-> "", attrs |-> <<>>, attrs2 |-> <<>>,
                       data |-> held]
                 ELSE ev'
            inert == \/ IsTagEvent(e) /\ e.tag \notin _BLOCK_TAGS
                     \/ e.kind \in IgnoredKinds
                     \/ e.kind = "data" /\ AllSpace(e.data)
        IN  /\ (fed \/ closed) /\ inert => chunks' = chunks
            /\ chunks' # chunks =>
                 /\ fed \/ closed
                 /\ \/ IsBlockTagEvent(e)
                    \/ e.kind = "data" /\ ~AllSpace(e.data)
      ]_vars

\* a comment, processing instruction or doctype declaration has been met
\* after a text chunk, where a block tag would have added a break
C16_Witness ==
    /\ pc = "feed"
    /\ ev.kind \in IgnoredKinds
    /\ chunks # <<>>
    /\ IsTextChunk(chunks[Len(chunks)])
    /\ _maybe_add_newline(chunks) # chunks

(***************************************************************************)
(* C17                                                                     *)
(***************************************************************************)
\* the positions of the break markers, and of the text chunks, of c
BreaksOf(c) == {k \in 1..Len(c) : IsBreak(c[k])}
TextsOf(c) == {k \in 1..Len(c) : IsTextChunk(c[k])}

\* C17: the chunk sequence never begins with a break marker (a block-tag
\* event on the empty sequence appends nothing), and it never holds more
\* break markers than text chunks.
C17_NoLeadingBreak ==
    /\ chunks # <<>> => IsTextChunk(chunks[1])
    /\ Cardinality(BreaksOf(chunks)) <= Cardinality(TextsOf(chunks))

\* a block-tag event has been received while the chunk sequence was empty
C17_Witness ==
    /\ pc = "feed"
    /\ IsBlockTagEvent(ev)
    /\ chunks = <<>>

(***************************************************************************)
(* C18                                                                     *)
(***************************************************************************)
\* c is the break marker or a non-empty text without whitespace at its ends
WellFormedChunk(c) ==
    \/ IsBreak(c)
    \/ c # <<>> /\ ~IsSpace(c[1]) /\ ~IsSpace(c[Len(c)])

\* C18: every step leaves the chunk sequence unchanged or appends exactly one
\* chunk to it, the chunks already there staying as they are and where they
\* are, and every chunk is the break marker or a non-empty text with no
\* leading or trailing whitespace.
C18_AppendOnlyWellFormed ==
    [][ /\ \/ chunks' = chunks
           \/ /\ Len(chunks') = Len(chunks) + 1
              /\ SubSeq(chunks', 1, Len(chunks)) = chunks
        /\ \A k \in 1..Len(chunks') : WellFormedChunk(chunks'[k])
      ]_vars

\* a text, a break and a text with whitespace inside have been appended, and
\* a further text after them
C18_Witness ==
    /\ pc = "feed"
    /\ Len(chunks) = 4
    /\ SubSeq(chunks, 1, 3) = << <<"b">>, NL, <<"a", " ", "\t", "b">> >>
    /\ IsTextChunk(chunks[4])
    /\ ev.kind = "data"

(***************************************************************************)
(* C19                                                                     *)
(***************************************************************************)
\* s[i..j] is time-shaped: one or two digits, ":", two digits, and possibly
\* ":" and two more digits
TimeShaped(s, i, j) ==
    \E h \in 1..2 :
        /\ \A k \in i..(i + h - 1) : DigitAt(s, k)
        /\ ColonAt(s, i + h)
        /\ DigitAt(s, i + h + 1) /\ DigitAt(s, i + h + 2)
        /\ \/ j = i + h + 2
           \/ /\ j = i + h + 5
              /\ ColonAt(s, i + h + 3)
              /\ DigitAt(s, i + h + 4) /\ DigitAt(s, i + h + 5)

\* s[i..j] is a time-shaped token: it lies in no longer time-shaped span
TimeToken(s, i, j) ==
    /\ TimeShaped(s, i, j)
    /\ \A a \in 1..i, b \in j..Len(s) :
           TimeShaped(s, a, b) => a = i /\ b = j

\* the token s[i..j] is embedded: a letter, digit or underscore stands
\* immediately before or after it
Embedded(s, i, j) == WordAt(s, i - 1) \/ WordAt(s, j + 1)

\* s from index i on, with each token that is not embedded replaced by one
\* space, left to right, and every other character as it is
RECURSIVE TokensReplacedFrom(_, _)
TokensReplacedFrom(s, i) ==
    IF i > Len(s) THEN <<>>
    ELSE LET js == {j \in i..Len(s) : TimeToken(s, i, j) /\ ~Embedded(s, i, j)}
         IN  IF js # {}
             THEN <<" ">> \o TokensReplacedFrom(s, (CHOOSE j \in js : TRUE) + 1)
             ELSE <<s[i]>> \o TokensReplacedFrom(s, i + 1)

\* C19 as stated: timestamp removal leaves a time-shaped token with a letter,
\* digit or underscore immediately before or after it unchanged, leaves every
\* character outside the matched tokens unchanged, and replaces each separate
\* match by its own single space, left to right.
C19_TokensRespected ==
    pc = "ws" => text = TokensReplacedFrom(joined[1], 1)

====
